---- MODULE Spec2Model ----
(***************************************************************************)
(* State-machine model of cirrus/tasks/c2/src/handler.py: one invocation   *)
(* of lambda_handler (validate -> query -> per-item transform -> extend    *)
(* features -> size check -> return or offload), with the catalog, the     *)
(* asset signer, HTTP GET and the two S3 buckets as the environment.       *)
(*                                                                         *)
(* Strings are TLA+ strings; f-strings are \o concatenations, len() is     *)
(* Len and the `in` substring test is Contains.  A JSON value of the       *)
(* incoming event is a tagged record (Absent for a missing key).           *)
(***************************************************************************)
EXTENDS Integers, Sequences, FiniteSets, TLC

VARIABLES
  pc,                  \* position of the invocation inside lambda_handler
  event,               \* the payload dict, mutated in place by the handler
  entry,               \* the payload exactly as it was received (history)
  payload_bucket_env,  \* CIRRUS_PAYLOAD_BUCKET ("" when unset)
  catalog,             \* items of the remote catalog matching tile and date
  query_calls,         \* calls of query_planetary_computer made so far
  search_log,          \* calls of client.search made so far
  stac_items,          \* the list returned by query_planetary_computer
  idx,                 \* 1-based position of the `for item in stac_items` loop
  processed_features,  \* the local list processed_features
  get_log,             \* hrefs requested with requests.get
  data_bucket,         \* objects put in CIRRUS_DATA_BUCKET
  payload_store,       \* objects put in CIRRUS_PAYLOAD_BUCKET
  failed_assets,       \* <<item index, asset index>> whose fetch or put failed
  response,            \* what lambda_handler returned, if it returned
  raised               \* which exception left lambda_handler, if one did

vars == <<pc, event, entry, payload_bucket_env, catalog, query_calls,
          search_log, stac_items, idx, processed_features, get_log,
          data_bucket, payload_store, failed_assets, response, raised>>

-----------------------------------------------------------------------------
(* Bounds of the model *)

MaxCatalog == 2

MaxPre == 1

MaxLinks == 3

MaxAssets == 2

-----------------------------------------------------------------------------
(* JSON values and Python truthiness *)

Absent == [t |-> "absent"]

JNull == [t |-> "null"]

JStr(s) == [t |-> "str", s |-> s]

JInt(n) == [t |-> "int", n |-> n]

JBool(b) == [t |-> "bool", b |-> b]

\* dict.get(key, default): the default only when the key is missing
Get(v, default) == IF v.t = "absent" THEN default ELSE v

\* bool(v) for the JSON values a task configuration can hold
Truthy(v) ==
  CASE v.t = "str" -> v.s /= ""
    [] v.t = "int" -> v.n /= 0
    [] v.t = "bool" -> v.b
    [] OTHER -> FALSE

\* `sub in s` on strings
Contains(s, sub) ==
  \E i \in 1..(Len(s) - Len(sub) + 1) : SubSeq(s, i, i + Len(sub) - 1) = sub

Min(a, b) == IF a <= b THEN a ELSE b

-----------------------------------------------------------------------------
(* Module constants of handler.py *)

COLLECTION == "sentinel-2-l2a"

CIRRUS_DATA_BUCKET == "cirrus-data"

TASK_NAME == "planetary-computer-to-s3"

DefaultMaxItems == 100

Threshold == 240000

-----------------------------------------------------------------------------
(* Items, assets and links as the catalog returns them *)

GeoTiffCog == "image/tiff; application=geotiff; profile=cloud-optimized"

Asset(key, href, media_type) ==
  [key |-> key, href |-> href, media_type |-> media_type]

Link(rel, href) == [rel |-> rel, href |-> href]

\* jsonable: whether json.dumps(..., default=str) accepts the item's to_dict()
\* (FALSE stands for content it rejects, such as a non-string key or a cycle)
Item(id, assets, links, jsonable) ==
  [id |-> id, assets |-> assets, links |-> links, jsonable |-> jsonable]

ItemA ==
  Item("S2A_33UUP",
       << Asset("B04", "https://pc/S2A/B04.tif", JStr(GeoTiffCog)),
          Asset("preview", "https://pc/S2A/preview.png", JStr("image/png")) >>,
       << Link("self", "https://pc/items/S2A"),
          Link("parent", "https://pc/collections/s2"),
          Link("collection", "https://pc/collections/s2") >>,
       TRUE)

ItemB ==
  Item("S2B_33UUP",
       << Asset("B04", "https://pc/S2B/B04.tif", JStr(GeoTiffCog)),
          Asset("B08", "https://pc/S2B/B08.tif", JStr(GeoTiffCog)),
          Asset("granule-metadata", "https://pc/S2B/meta.xml", JNull) >>,
       << Link("root", "https://pc/"),
          Link("license", "https://pc/license"),
          Link("self", "https://pc/items/S2B") >>,
       TRUE)

ItemC ==
  Item("S2C_33UUP",
       << Asset("visual", "https://pc/S2C/visual.tif", JStr("image/tiff")) >>,
       << Link("self", "https://pc/items/S2C") >>,
       FALSE)

\* Item.to_dict(): the plain mapping appended to processed_features
ToDict(item) ==
  [type |-> "Feature", id |-> item.id, assets |-> item.assets,
   links |-> item.links, jsonable |-> item.jsonable]

\* a feature already present in the incoming payload (decoded JSON)
PreFeature ==
  [type |-> "Feature", id |-> "earlier-item", assets |-> <<>>,
   links |-> << Link("canonical", "https://stac/items/earlier-item") >>,
   jsonable |-> TRUE]

\* an error record already present in the incoming payload
PreError ==
  [task |-> "some-earlier-task", error |-> "earlier failure",
   timestamp |-> "2024-05-31T23:59:59"]

-----------------------------------------------------------------------------
(* prepare_item_for_indexing *)

KeptRels == {"canonical", "collection", "root"}

\* first loop: "self" becomes "canonical"
Relabel(links) ==
  [i \in 1..Len(links) |->
     IF links[i].rel = "self" THEN [links[i] EXCEPT !.rel = "canonical"]
     ELSE links[i]]

IsDisposable(link) == link.rel /= "self" /\ link.rel \notin KeptRels

\* first loop: the links collected in links_to_remove (the elif branch)
LinksToRemove(links) == SelectSeq(links, IsDisposable)

\* list.remove(x): drops the first element equal to x
RECURSIVE ListRemove(_, _)
ListRemove(list, x) ==
  IF list = <<>> THEN <<>>
  ELSE IF Head(list) = x THEN Tail(list)
  ELSE <<Head(list)>> \o ListRemove(Tail(list), x)

\* second loop: for link in links_to_remove: item.links.remove(link)
RECURSIVE RemoveEach(_, _)
RemoveEach(list, to_remove) ==
  IF to_remove = <<>> THEN list
  ELSE RemoveEach(ListRemove(list, Head(to_remove)), Tail(to_remove))

\* the slip of removing from item.links inside the loop that iterates it:
\* the element after each removed one is skipped
RECURSIVE SkippingLoop(_, _)
SkippingLoop(links, i) ==
  IF i > Len(links) THEN links
  ELSE IF links[i].rel = "self"
       THEN SkippingLoop([links EXCEPT ![i].rel = "canonical"], i + 1)
  ELSE IF links[i].rel \notin KeptRels
       THEN SkippingLoop(SubSeq(links, 1, i - 1) \o SubSeq(links, i + 1, Len(links)),
                         i + 1)
  ELSE SkippingLoop(links, i + 1)

prepare_item_for_indexing_skipping(item) ==
  [item EXCEPT !.links = SkippingLoop(item.links, 1)]

prepare_item_for_indexing(item) ==
  [item EXCEPT !.links = RemoveEach(Relabel(item.links), LinksToRemove(item.links))]

-----------------------------------------------------------------------------
(* download_and_update_item *)

\* planetary_computer.sign(item): a copy whose asset hrefs carry a token
Sign(item) ==
  [item EXCEPT !.assets =
     [i \in 1..Len(item.assets) |->
        [item.assets[i] EXCEPT !.href = @ \o "?sig=token"]]]

IsTiff(media_type) == Truthy(media_type) /\ Contains(media_type.s, "tiff")

\* asset.media_type and "geotiff" in asset.media_type
IsGeoTiff(media_type) == Truthy(media_type) /\ Contains(media_type.s, "geotiff")

S3Key(item_id, asset_key) ==
  "sentinel-2-l2a/" \o item_id \o "/" \o asset_key \o ".tif"

S3Href(s3_key) == "s3://" \o CIRRUS_DATA_BUCKET \o "/" \o s3_key

PutOfAsset(item_id, asset) ==
  [Bucket |-> CIRRUS_DATA_BUCKET, Key |-> S3Key(item_id, asset.key),
   ContentType |-> asset.media_type.s]

\* the slip of rewriting the href before the put has succeeded
AssetStepEarlyRewrite(st, signed_item, outcome, i) ==
  LET asset == signed_item.assets[i] IN
  IF ~IsGeoTiff(asset.media_type) THEN st
  ELSE IF outcome[i] = "get_fail"
       THEN [st EXCEPT !.gets = @ \cup {asset.href}, !.failed = @ \cup {i}]
  ELSE IF outcome[i] = "put_fail"
       THEN [st EXCEPT !.gets = @ \cup {asset.href}, !.failed = @ \cup {i},
                       !.item.assets[i].href = S3Href(S3Key(st.item.id, asset.key))]
  ELSE [st EXCEPT !.gets = @ \cup {asset.href},
                  !.puts = @ \cup {PutOfAsset(st.item.id, asset)},
                  !.item.assets[i].href = S3Href(S3Key(st.item.id, asset.key))]

\* one pass of the loop body for the i-th asset; st.item is the original
\* item, outcome[i] says how requests.get and put_object end for it
AssetStep(st, signed_item, outcome, i) ==
  LET asset == signed_item.assets[i] IN
  IF ~IsGeoTiff(asset.media_type) THEN st
  ELSE IF outcome[i] = "get_fail"
       THEN [st EXCEPT !.gets = @ \cup {asset.href}, !.failed = @ \cup {i}]
  ELSE IF outcome[i] = "put_fail"
       THEN [st EXCEPT !.gets = @ \cup {asset.href}, !.failed = @ \cup {i}]
  ELSE [st EXCEPT !.gets = @ \cup {asset.href},
                  !.puts = @ \cup {PutOfAsset(st.item.id, asset)},
                  !.item.assets[i].href = S3Href(S3Key(st.item.id, asset.key))]

RECURSIVE AssetLoop(_, _, _, _)
AssetLoop(st, signed_item, outcome, i) ==
  IF i > Len(signed_item.assets) THEN st
  ELSE AssetLoop(AssetStep(st, signed_item, outcome, i), signed_item, outcome, i + 1)

\* the item returned, with the GETs made, the objects put and the assets
\* whose try block ended in the except branch
download_and_update_item(item, outcome) ==
  AssetLoop([item |-> item, gets |-> {}, puts |-> {}, failed |-> {}],
            Sign(item), outcome, 1)

\* the ways the fetch and the put of each asset can end; an asset that is
\* not attempted has nothing to fail
Outcomes(item) ==
  { o \in [1..Len(item.assets) -> {"ok", "get_fail", "put_fail"}] :
      \A i \in 1..Len(item.assets) :
        ~IsGeoTiff(item.assets[i].media_type) => o[i] = "ok" }

-----------------------------------------------------------------------------
(* json.dumps(payload, default=str) and the size decision *)

RECURSIVE SumSeq(_)
SumSeq(ints) == IF ints = <<>> THEN 0 ELSE Head(ints) + SumSeq(Tail(ints))

MediaLen(media_type) == IF media_type.t = "str" THEN Len(media_type.s) ELSE Len("null")

AssetLen(asset) == Len(asset.key) + Len(asset.href) + MediaLen(asset.media_type)

LinkLen(link) == Len(link.rel) + Len(link.href)

FeatureLen(f) ==
  Len(f.type) + Len(f.id)
    + SumSeq([i \in 1..Len(f.assets) |-> AssetLen(f.assets[i])])
    + SumSeq([i \in 1..Len(f.links) |-> LinkLen(f.links[i])])

ErrorLen(e) == Len(e.task) + Len(e.error) + Len(e.timestamp)

\* bytes of the serialized payload: pad counts the pass-through fields and
\* the JSON punctuation, the rest is the text of the features and errors
PayloadLen(payload) ==
  payload.pad + Len(payload.id)
    + (IF payload.has_features
       THEN SumSeq([i \in 1..Len(payload.features) |->
                      FeatureLen(payload.features[i])])
       ELSE 0)
    + (IF payload.has_errors
       THEN SumSeq([i \in 1..Len(payload.errors) |-> ErrorLen(payload.errors[i])])
       ELSE 0)

\* whether json.dumps returns instead of raising
Serializable(payload) ==
  payload.has_features =>
    \A i \in 1..Len(payload.features) : payload.features[i].jsonable

json_dumps(payload) ==
  [ok |-> Serializable(payload), bytes |-> PayloadLen(payload)]

should_upload_to_s3_inclusive(payload) ==
  LET payload_json == json_dumps(payload) IN
  IF payload_json.ok THEN payload_json.bytes >= Threshold ELSE TRUE

should_upload_to_s3(payload) ==
  LET payload_json == json_dumps(payload) IN
  IF payload_json.ok THEN payload_json.bytes > Threshold ELSE TRUE

PayloadKey(payload) == TASK_NAME \o "/" \o payload.id \o ".json"

PayloadUrl(bucket, payload) ==
  "s3://" \o bucket \o "/" \o TASK_NAME \o "/" \o payload.id \o ".json"

-----------------------------------------------------------------------------
(* The except clause of lambda_handler *)

ErrorRecord(message) ==
  [task |-> "planetary-computer-to-s3", error |-> message, timestamp |-> "utcnow"]

AppendErrorOverwriting(ev, message) ==
  [ev EXCEPT !.has_errors = TRUE, !.errors = << ErrorRecord(message) >>]

AppendError(ev, message) ==
  [ev EXCEPT !.has_errors = TRUE,
             !.errors = Append(IF ev.has_errors THEN ev.errors ELSE <<>>,
                               ErrorRecord(message))]

\* an exception raised at the current position: recorded, then re-raised
Raise(ev, kind) ==
  /\ event' = AppendError(ev, kind)
  /\ pc' = "raised"
  /\ raised' = kind
  /\ response' = response

-----------------------------------------------------------------------------
(* Reading the task configuration *)

TaskConfig == event.task_config

MissingRequiredBoth(tile, date) == ~Truthy(tile) /\ ~Truthy(date)

\* if not tile or not date
MissingRequired(tile, date) == ~Truthy(tile) \/ ~Truthy(date)

\* task_config.get("max_items", 100)
MaxItemsOf(task_config) == Get(task_config.max_items, JInt(DefaultMaxItems))

\* task_config.get("download_assets", False)
DownloadAssetsOf(task_config) == Get(task_config.download_assets, JBool(FALSE))

\* the datetime argument: a range passes through, a single date becomes
\* the one-day range starting at it
NextDay(date) ==
  CASE date = "2024-06-01" -> "2024-06-02"
    [] OTHER -> date

DatetimeQuery(date) ==
  IF Contains(date, "/") THEN date
  ELSE date \o "T00:00:00/" \o NextDay(date) \o "T00:00:00"

\* list(search.items()) with max_items: at most that many items, in the
\* catalog's order; None leaves the result unlimited
SearchItems(cat, max_items) ==
  IF max_items.t = "int" THEN SubSeq(cat, 1, Min(max_items.n, Len(cat))) ELSE cat

-----------------------------------------------------------------------------
(* The exceptions that can leave lambda_handler, by their message *)

ConfigError == "Both 'tile' and 'date' are required in task configuration"

CatalogError == "catalog request failed"

SignError == "asset signing failed"

NoBucketError == "CIRRUS_PAYLOAD_BUCKET environment variable not set"

SerializeError == "payload is not JSON serializable"

PutError == "put_object failed"

-----------------------------------------------------------------------------
(* The steps of lambda_handler *)

\* lines 57-79: read the configuration, require tile and date.  The event is
\* decoded JSON holding process[0] and id, so the log line 58 and the lookup
\* on line 61 do not raise
Validate ==
  /\ pc = "start"
  /\ LET tile == Get(TaskConfig.tile, JNull)
         date == Get(TaskConfig.date, JNull)
     IN IF MissingRequired(tile, date)
        THEN Raise(event, ConfigError)
        ELSE pc' = "query" /\ UNCHANGED <<event, raised, response>>
  /\ UNCHANGED <<entry, payload_bucket_env, catalog, query_calls, search_log,
                 stac_items, idx, processed_features, get_log, data_bucket,
                 payload_store, failed_assets>>

\* line 82 and query_planetary_computer: the catalog may fail before the
\* search is issued (Client.open) or while its pages are read
Query ==
  /\ pc = "query"
  /\ LET tile == TaskConfig.tile
         date == TaskConfig.date
         max_items == MaxItemsOf(TaskConfig)
         download_assets == DownloadAssetsOf(TaskConfig)
     IN /\ query_calls' = Append(query_calls,
             [tile |-> tile, date |-> date, max_items |-> max_items,
              download_assets |-> download_assets])
        /\ \E result \in {"ok", "open_fails", "search_fails"} :
             /\ search_log' =
                  IF result = "open_fails" THEN search_log
                  ELSE Append(search_log,
                         [collections |-> << COLLECTION >>,
                          datetime |-> DatetimeQuery(date.s),
                          mgrs_tile |-> tile.s,
                          max_items |-> max_items])
             /\ IF result = "ok"
                THEN /\ stac_items' = SearchItems(catalog, max_items)
                     /\ processed_features' = <<>>
                     /\ idx' = 1
                     /\ pc' = "loop"
                     /\ UNCHANGED <<event, raised, response>>
                ELSE /\ Raise(event, CatalogError)
                     /\ UNCHANGED <<stac_items, processed_features, idx>>
  /\ UNCHANGED <<entry, payload_bucket_env, catalog, get_log, data_bucket,
                 payload_store, failed_assets>>

\* the slip of appending each item to event["features"] inside the loop
ProcessItemEager ==
  /\ pc = "loop"
  /\ idx <= Len(stac_items)
  /\ LET item == stac_items[idx] IN
     IF Truthy(DownloadAssetsOf(TaskConfig))
     THEN \E signed \in BOOLEAN :
            IF ~signed
            THEN /\ Raise(event, SignError)
                 /\ UNCHANGED <<idx, processed_features, get_log, data_bucket,
                                failed_assets>>
            ELSE \E outcome \in Outcomes(item) :
                   LET r == download_and_update_item(item, outcome) IN
                   /\ processed_features' = Append(processed_features, ToDict(r.item))
                   /\ event' = [event EXCEPT !.has_features = TRUE,
                                  !.features = Append(IF event.has_features
                                                      THEN event.features ELSE <<>>,
                                                      ToDict(r.item))]
                   /\ get_log' = get_log \cup r.gets
                   /\ data_bucket' = data_bucket \cup r.puts
                   /\ failed_assets' = failed_assets \cup {<<idx, i>> : i \in r.failed}
                   /\ idx' = idx + 1
                   /\ UNCHANGED <<pc, raised, response>>
     ELSE /\ processed_features' =
               Append(processed_features, ToDict(prepare_item_for_indexing(item)))
          /\ event' = [event EXCEPT !.has_features = TRUE,
                         !.features = Append(IF event.has_features
                                             THEN event.features ELSE <<>>,
                                             ToDict(prepare_item_for_indexing(item)))]
          /\ idx' = idx + 1
          /\ UNCHANGED <<pc, raised, response, get_log, data_bucket,
                         failed_assets>>
  /\ UNCHANGED <<entry, payload_bucket_env, catalog, query_calls, search_log,
                 stac_items, payload_store>>

\* lines 87-95: one pass of `for item in stac_items`
ProcessItem ==
  /\ pc = "loop"
  /\ idx <= Len(stac_items)
  /\ LET item == stac_items[idx] IN
     IF Truthy(DownloadAssetsOf(TaskConfig))
     THEN \E signed \in BOOLEAN :
            IF ~signed
            THEN /\ Raise(event, SignError)
                 /\ UNCHANGED <<idx, processed_features, get_log, data_bucket,
                                failed_assets>>
            ELSE \E outcome \in Outcomes(item) :
                   LET r == download_and_update_item(item, outcome) IN
                   /\ processed_features' = Append(processed_features, ToDict(r.item))
                   /\ get_log' = get_log \cup r.gets
                   /\ data_bucket' = data_bucket \cup r.puts
                   /\ failed_assets' = failed_assets \cup {<<idx, i>> : i \in r.failed}
                   /\ idx' = idx + 1
                   /\ UNCHANGED <<pc, event, raised, response>>
     ELSE /\ processed_features' =
               Append(processed_features, ToDict(prepare_item_for_indexing(item)))
          /\ idx' = idx + 1
          /\ UNCHANGED <<pc, event, raised, response, get_log, data_bucket,
                         failed_assets>>
  /\ UNCHANGED <<entry, payload_bucket_env, catalog, query_calls, search_log,
                 stac_items, payload_store>>

ExtendFeaturesOverwriting(ev, processed) ==
  [ev EXCEPT !.has_features = TRUE, !.features = processed]

\* lines 98-100
ExtendFeatures(ev, processed) ==
  [ev EXCEPT !.has_features = TRUE,
             !.features = (IF ev.has_features THEN ev.features ELSE <<>>) \o processed]

\* lines 97-102: the loop is over, features is extended
Extend ==
  /\ pc = "loop"
  /\ idx > Len(stac_items)
  /\ event' = ExtendFeatures(event, processed_features)
  /\ pc' = "size_check"
  /\ UNCHANGED <<entry, payload_bucket_env, catalog, query_calls, search_log,
                 stac_items, idx, processed_features, get_log, data_bucket,
                 payload_store, failed_assets, response, raised>>

\* lines 105, 109-111: the payload is small enough and is returned whole
ReturnFull ==
  /\ pc = "size_check"
  /\ ~should_upload_to_s3(event)
  /\ response' = [kind |-> "payload", body |-> event]
  /\ pc' = "returned"
  /\ UNCHANGED <<event, entry, payload_bucket_env, catalog, query_calls,
                 search_log, stac_items, idx, processed_features, get_log,
                 data_bucket, payload_store, failed_assets, raised>>

\* lines 105-108 and upload_payload_to_s3
Offload ==
  /\ pc = "size_check"
  /\ should_upload_to_s3(event)
  /\ IF payload_bucket_env = ""
     THEN Raise(event, NoBucketError) /\ UNCHANGED payload_store
     ELSE LET body == json_dumps(event) IN
          IF ~body.ok
          THEN Raise(event, SerializeError) /\ UNCHANGED payload_store
          ELSE \E stored \in BOOLEAN :
                 IF stored
                 THEN /\ payload_store' = payload_store \cup
                           {[Bucket |-> payload_bucket_env,
                             Key |-> PayloadKey(event),
                             Bytes |-> body.bytes,
                             ContentType |-> "application/json"]}
                      /\ response' = [kind |-> "url",
                                      url |-> PayloadUrl(payload_bucket_env, event)]
                      /\ pc' = "returned"
                      /\ UNCHANGED <<event, raised>>
                 ELSE Raise(event, PutError) /\ UNCHANGED payload_store
  /\ UNCHANGED <<entry, payload_bucket_env, catalog, query_calls, search_log,
                 stac_items, idx, processed_features, get_log, data_bucket,
                 failed_assets>>

Next ==
  \/ Validate
  \/ Query
  \/ ProcessItem
  \/ Extend
  \/ ReturnFull
  \/ Offload

-----------------------------------------------------------------------------
(* Initial states: the invocation has been received and nothing has run *)

EventId == "wf-33UUP"

SeqsUpTo(S, n) == UNION { [1..k -> S] : k \in 0..n }

\* lists without repetition: a search returns each item once
DistinctSeqsUpTo(S, n) ==
  { q \in SeqsUpTo(S, n) : \A i, j \in 1..Len(q) : q[i] = q[j] => i = j }

\* a key of the payload that may be missing, or hold a list
OptionalLists(S, n) ==
  {[has |-> FALSE, v |-> <<>>]} \cup {[has |-> TRUE, v |-> q] : q \in SeqsUpTo(S, n)}

\* the pad with which catalog <<ItemA>> in metadata-only mode serializes to
\* exactly Threshold bytes
BoundaryPad ==
  Threshold - Len(EventId) - FeatureLen(ToDict(prepare_item_for_indexing(ItemA)))

InitWith(Configs, FeatureOpts, ErrorOpts, Pads, Buckets, Catalogs) ==
  /\ \E c \in Configs, f \in FeatureOpts, e \in ErrorOpts, p \in Pads :
       event = [id |-> EventId, task_config |-> c,
                has_features |-> f.has, features |-> f.v,
                has_errors |-> e.has, errors |-> e.v, pad |-> p]
  /\ entry = event
  /\ payload_bucket_env \in Buckets
  /\ catalog \in Catalogs
  /\ pc = "start"
  /\ query_calls = <<>>
  /\ search_log = <<>>
  /\ stac_items = <<>>
  /\ idx = 1
  /\ processed_features = <<>>
  /\ get_log = {}
  /\ data_bucket = {}
  /\ payload_store = {}
  /\ failed_assets = {}
  /\ response = [kind |-> "none"]
  /\ raised = "none"

Init ==
  InitWith([tile : {Absent, JStr(""), JStr("33UUP")},
            date : {JNull, JStr("2024-06-01"), JStr("2024-06-01/2024-06-03")},
            download_assets : {Absent, JBool(FALSE), JBool(TRUE)},
            max_items : {Absent, JNull, JInt(1), JInt(2)}],
           OptionalLists({PreFeature}, MaxPre),
           OptionalLists({PreError}, MaxPre),
           {0, BoundaryPad, BoundaryPad + 1},
           {"", "cirrus-payloads"},
           DistinctSeqsUpTo({ItemA, ItemB, ItemC}, MaxCatalog))

Spec == Init /\ [][Next]_vars

-----------------------------------------------------------------------------
(* Metadata-only runs over every short list of links *)

LinkPool ==
  { Link(rel, href) :
      rel \in {"self", "canonical", "collection", "root", "parent"},
      href \in {"https://pc/a", "https://pc/b"} }

LinkItems ==
  { Item("S2L_33UUP", ItemA.assets, links, TRUE) :
      links \in SeqsUpTo(LinkPool, MaxLinks) }

InitLinks ==
  InitWith([tile : {JStr("33UUP")},
            date : {JStr("2024-06-01")},
            download_assets : {Absent, JBool(FALSE)},
            max_items : {Absent}],
           {[has |-> FALSE, v |-> <<>>]},
           {[has |-> FALSE, v |-> <<>>]},
           {0, Threshold},
           {"", "cirrus-payloads"},
           { <<item>> : item \in LinkItems })

SpecLinks == InitLinks /\ [][Next]_vars

-----------------------------------------------------------------------------
(* Asset-download runs over every short list of assets *)

MediaTypes ==
  { JNull, JStr(""), JStr("image/png"), JStr("image/tiff"), JStr(GeoTiffCog),
    JStr("application/geotiff") }

AssetKeys == << "B01", "B02", "B03", "B04" >>

\* the i-th asset of an item, of the given media type
NthAsset(i, media_type) ==
  Asset(AssetKeys[i], "https://pc/S2W/" \o AssetKeys[i], media_type)

AssetItems ==
  { Item("S2W_33UUP", [i \in 1..Len(types) |-> NthAsset(i, types[i])],
         ItemA.links, TRUE) :
      types \in SeqsUpTo(MediaTypes, MaxAssets) }

InitAssets ==
  InitWith([tile : {JStr("33UUP")},
            date : {JStr("2024-06-01/2024-06-03")},
            download_assets : {JBool(TRUE), JStr("yes")},
            max_items : {Absent}],
           OptionalLists({PreFeature}, MaxPre),
           {[has |-> FALSE, v |-> <<>>]},
           {0, Threshold},
           {"cirrus-payloads"},
           { <<item>> : item \in AssetItems }
             \cup { <<ItemB, item>> : item \in AssetItems })

SpecAssets == InitAssets /\ [][Next]_vars

-----------------------------------------------------------------------------
(* What the claims speak about *)

EntryFeatures == IF entry.has_features THEN entry.features ELSE <<>>

EntryErrors == IF entry.has_errors THEN entry.errors ELSE <<>>

DownloadMode == Truthy(Get(entry.task_config.download_assets, JBool(FALSE)))

AbsentOrEmpty(v) == v.t \in {"absent", "null"} \/ (v.t = "str" /\ v.s = "")

TileOrDateMissing ==
  AbsentOrEmpty(entry.task_config.tile) \/ AbsentOrEmpty(entry.task_config.date)

NoGeotiffInMediaType(media_type) ==
  media_type.t /= "str" \/ ~Contains(media_type.s, "geotiff")

\* C1: an invocation that returns gives back {"url": ...} exactly when the
\* serialized payload, appended features included, is longer than 240000
\* bytes; a payload of exactly 240000 bytes or fewer comes back whole; and
\* for a serializable payload should_upload_to_s3 is (byte length > 240000).
C1_OffloadIffOverThreshold ==
  /\ pc = "returned" =>
       /\ response.kind \in {"url", "payload"}
       /\ (response.kind = "url") <=> (PayloadLen(event) > 240000)
       /\ response.kind = "payload" => response.body = event
       /\ response.kind = "url" =>
            \E o \in payload_store : o.Bytes = PayloadLen(event)
  /\ (pc = "size_check" /\ Serializable(event)) =>
       (should_upload_to_s3(event) <=> (PayloadLen(event) > 240000))

\* a payload of exactly 240000 bytes, with features just appended, returned whole
C1_Witness ==
  /\ pc = "returned"
  /\ PayloadLen(event) = 240000
  /\ response.kind = "payload"
  /\ Len(processed_features) > 0

\* C2: an invocation never both fails and returns; a failed one has appended
\* exactly one error record after the records it received, kept in order, and
\* has returned no response.
C2_FailureRecordsOneErrorAndReturnsNothing ==
  /\ pc = "raised" =>
       /\ raised \in {ConfigError, CatalogError, SignError, NoBucketError,
                      SerializeError, PutError}
       /\ response.kind = "none"
       /\ event.has_errors
       /\ Len(event.errors) = Len(EntryErrors) + 1
       /\ SubSeq(event.errors, 1, Len(EntryErrors)) = EntryErrors
       /\ event.errors[Len(event.errors)].task = "planetary-computer-to-s3"
       /\ event.errors[Len(event.errors)].error = raised
  /\ pc = "returned" =>
       /\ raised = "none"
       /\ response.kind /= "none"
       /\ event.has_errors = entry.has_errors
       /\ event.errors = entry.errors
  /\ response.kind /= "none" => pc = "returned"
  /\ raised /= "none" => pc = "raised"

\* the overflow put fails on a payload that already carries an error record
C2_Witness ==
  /\ pc = "raised"
  /\ raised = PutError
  /\ Len(EntryErrors) >= 1
  /\ Len(event.errors) = Len(EntryErrors) + 1

\* C3: in asset-download mode a geotiff asset whose fetch or put failed keeps
\* its original href; every other geotiff asset of the item was fetched, put
\* under sentinel-2-l2a/{item-id}/{asset-name}.tif and points at that object;
\* an href is rewritten only when that put succeeded; the failure does not
\* stop the item, which is in features once features is extended.
C3_FailedAssetKeepsHrefOthersRehosted ==
  DownloadMode =>
    /\ \A k \in 1..Len(processed_features) :
         LET orig == stac_items[k]
             f == processed_features[k]
         IN /\ f.id = orig.id
            /\ Len(f.assets) = Len(orig.assets)
            /\ \A i \in 1..Len(orig.assets) :
                 LET key == "sentinel-2-l2a/" \o orig.id \o "/"
                              \o orig.assets[i].key \o ".tif"
                     stored == \E o \in data_bucket : o.Key = key
                 IN /\ ~NoGeotiffInMediaType(orig.assets[i].media_type) =>
                         IF <<k, i>> \in failed_assets
                         THEN f.assets[i].href = orig.assets[i].href
                         ELSE /\ Sign(orig).assets[i].href \in get_log
                              /\ stored
                              /\ f.assets[i].href = "s3://cirrus-data/" \o key
                    /\ f.assets[i].href /= orig.assets[i].href => stored
    /\ \A fa \in failed_assets : fa[1] <= Len(processed_features)
    /\ pc \in {"size_check", "returned"} =>
         /\ Len(event.features) = Len(EntryFeatures) + Len(stac_items)
         /\ \A k \in 1..Len(stac_items) :
              event.features[Len(EntryFeatures) + k] = processed_features[k]

\* an item with one failed and one re-hosted geotiff asset, returned in features
C3_Witness ==
  /\ DownloadMode
  /\ pc = "returned"
  /\ \E k \in 1..Len(stac_items) :
       \E i, j \in 1..Len(stac_items[k].assets) :
         /\ <<k, i>> \in failed_assets
         /\ <<k, j>> \notin failed_assets
         /\ ~NoGeotiffInMediaType(stac_items[k].assets[j].media_type)
         /\ processed_features[k].assets[j].href /= stac_items[k].assets[j].href

\* C4: when serializing the payload fails in the size check,
\* should_upload_to_s3 answers true and the invocation goes on to write the
\* payload to the overflow store and return {"url": ...}; it does not fail
\* with the serialization error nor record it in errors.
C4_SerializationFailureStillOffloads ==
  /\ (pc = "size_check" /\ ~Serializable(event)) => should_upload_to_s3(event)
  /\ (pc \in {"returned", "raised"} /\ ~Serializable(event)
        /\ raised \notin {NoBucketError, PutError}) =>
       /\ pc = "returned"
       /\ response.kind = "url"
       /\ payload_store /= {}
       /\ event.errors = entry.errors

\* the links an item should be left with, by filtering
C5_KeepsRel(link) == link.rel \in {"self", "canonical", "collection", "root"}

C5_Expected(links) ==
  LET kept == SelectSeq(links, C5_KeepsRel)
  IN [j \in 1..Len(kept) |->
        IF kept[j].rel = "self" THEN Link("canonical", kept[j].href) ELSE kept[j]]

\* C5: after prepare_item_for_indexing every link has a relation among
\* canonical, collection and root; the links kept are exactly the links whose
\* relation was self, canonical, collection or root, in their original order,
\* with self turned into canonical; every other link is gone.
C5_LinksCanonicalised ==
  ~DownloadMode =>
    \A k \in 1..Len(processed_features) :
      LET links == processed_features[k].links IN
      /\ \A j \in 1..Len(links) :
           links[j].rel \in {"canonical", "collection", "root"}
      /\ links = C5_Expected(stac_items[k].links)

\* a self link and a disposable link around a kept one
C5_Witness ==
  /\ ~DownloadMode
  /\ Len(processed_features) = 1
  /\ Len(stac_items[1].links) = 3
  /\ stac_items[1].links[1].rel = "parent"
  /\ stac_items[1].links[2].rel = "parent"
  /\ stac_items[1].links[3].rel = "self"
  /\ Len(processed_features[1].links) = 1

\* C6: the configuration error is raised exactly when tile or date is absent
\* or empty, and then nothing was queried, fetched or put; with both present
\* the invocation makes exactly one catalog query, whatever download_assets
\* and max_items hold.
C6_ConfigErrorIffTileOrDateMissing ==
  /\ raised = ConfigError =>
       /\ TileOrDateMissing
       /\ query_calls = <<>>
       /\ search_log = <<>>
       /\ get_log = {}
       /\ data_bucket = {}
       /\ payload_store = {}
  /\ TileOrDateMissing =>
       /\ pc \in {"start", "raised"}
       /\ pc = "raised" => raised = ConfigError
  /\ (~TileOrDateMissing /\ pc \notin {"start", "query"}) => Len(query_calls) = 1
  /\ Len(query_calls) <= 1
  /\ Len(search_log) <= 1

\* an empty tile beside a present date, with the optional fields given
C6_Witness ==
  /\ pc = "raised"
  /\ raised = ConfigError
  /\ entry.task_config.tile = JStr("")
  /\ entry.task_config.date = JStr("2024-06-01")
  /\ entry.task_config.download_assets = JBool(TRUE)

\* C7: in asset-download mode an asset whose media type is absent or has no
\* "geotiff" in it is never fetched, never put and keeps its href.
C7_NonGeotiffAssetUntouched ==
  DownloadMode =>
    \A k \in 1..Len(processed_features) :
      \A i \in 1..Len(stac_items[k].assets) :
        LET asset == stac_items[k].assets[i] IN
        NoGeotiffInMediaType(asset.media_type) =>
          /\ processed_features[k].assets[i] = asset
          /\ asset.href \notin get_log
          /\ Sign(stac_items[k]).assets[i].href \notin get_log
          /\ ~\E o \in data_bucket :
                o.Key = "sentinel-2-l2a/" \o stac_items[k].id \o "/"
                          \o asset.key \o ".tif"

\* a plain TIFF beside a geotiff that was re-hosted
C7_Witness ==
  /\ DownloadMode
  /\ pc = "returned"
  /\ Len(stac_items) = 1
  /\ Len(stac_items[1].assets) = 2
  /\ stac_items[1].assets[1].media_type = JStr("image/tiff")
  /\ stac_items[1].assets[2].media_type = JStr(GeoTiffCog)
  /\ data_bucket /= {}

\* C8: every catalog search carries a finite cap on the number of items, the
\* request's max_items when supplied and 100 otherwise, and no more items than
\* the cap come back; no request makes the search run uncapped.
C8_SearchAlwaysCapped ==
  \A n \in 1..Len(search_log) :
    LET cap == search_log[n].max_items
        supplied == entry.task_config.max_items
    IN /\ cap.t = "int"
       /\ supplied.t = "int" => cap = supplied
       /\ supplied.t = "absent" => cap = JInt(100)
       /\ Len(stac_items) <= cap.n
       /\ Len(processed_features) <= cap.n

\* the transformed form of the k-th returned item, given which of its
\* assets failed
C9_RecordedOutcome(k) ==
  [i \in 1..Len(stac_items[k].assets) |->
     IF <<k, i>> \in failed_assets THEN "get_fail" ELSE "ok"]

C9_Transformed(k) ==
  IF DownloadMode
  THEN ToDict(download_and_update_item(stac_items[k], C9_RecordedOutcome(k)).item)
  ELSE ToDict(prepare_item_for_indexing(stac_items[k]))

\* C9: after a successful invocation features is the features received, in
\* their order, followed by the transformed form of each returned item, one
\* per item, in the catalog's order.
C9_FeaturesAppendedInOrder ==
  pc = "returned" =>
    /\ event.has_features
    /\ Len(event.features) = Len(EntryFeatures) + Len(stac_items)
    /\ SubSeq(event.features, 1, Len(EntryFeatures)) = EntryFeatures
    /\ \A k \in 1..Len(stac_items) :
         /\ event.features[Len(EntryFeatures) + k].id = stac_items[k].id
         /\ event.features[Len(EntryFeatures) + k] = C9_Transformed(k)
    /\ response.kind = "payload" => response.body.features = event.features

\* two returned items appended after a feature that was already there
C9_Witness ==
  /\ pc = "returned"
  /\ Len(EntryFeatures) >= 1
  /\ Len(stac_items) = 2
  /\ Len(event.features) = Len(EntryFeatures) + 2

\* C10: an invocation that fails before the loop over the items has finished
\* leaves features exactly as received, even when assets of earlier items
\* are already in the data bucket; features changes only once every item has
\* been transformed.
C10_FeaturesUntouchedUntilLoopEnds ==
  /\ (pc = "raised" /\ raised \in {ConfigError, CatalogError, SignError}) =>
       /\ event.has_features = entry.has_features
       /\ event.features = entry.features
  /\ pc \in {"start", "query", "loop"} =>
       /\ event.has_features = entry.has_features
       /\ event.features = entry.features

\* signing the second item fails after the first item's asset was stored
C10_Witness ==
  /\ pc = "raised"
  /\ raised = SignError
  /\ Len(processed_features) >= 1
  /\ data_bucket /= {}

====
